---- MODULE Spec2Model ----
(***************************************************************************)
(* Model of the ingestion / fleet-merge pipeline of EformKPI               *)
(* (src/file_handler.py).                                                  *)
(*                                                                         *)
(* Strings are sequences of one-character strings, so that lower(),        *)
(* strip(), substring tests, re.sub and split act on characters.  The      *)
(* token "U+00E9" stands for the single non-ASCII letter e-acute.          *)
(* A cell is Null (NaN/None), a string, or an integer.  A table (pandas    *)
(* DataFrame) is [columns |-> sequence of header strings,                  *)
(* rows |-> sequence of rows], a row being the sequence of the cells in    *)
(* column order.                                                           *)
(***************************************************************************)
EXTENDS FiniteSets, Integers, Sequences, TLC

VARIABLES
    pc,                   \* position of the modelled call
    uploaded_file,        \* the primary file handed to process_file
    fleet_uploader,       \* fleet_file of app.py 53-58: what the fleet uploader holds
    uploaded_fleet_file,  \* st.session_state.uploaded_fleet_file
    default_fleet,        \* what reading the bundled default fleet workbook gives
    clean_table,          \* the CleanTable the loader produced (as given to the merge)
    returned,             \* what process_file returned
    messages,             \* the st.info/warning/success/error calls, in order
    arg,                  \* input of the function applied alone (SpecNorm, SpecSplit)
    out,                  \* its result
    session,              \* st.session_state: data, analysis_complete, config
    screen                \* what the main area of the page shows after a run

vars == <<pc, uploaded_file, fleet_uploader, uploaded_fleet_file, default_fleet, clean_table,
          returned, messages, arg, out, session, screen>>

----------------------------------------------------------------------------
(* Bounds *)

MaxNameLen == 3
MaxValueLen == 3
MaxRows == 2
MaxFleetRows == 2
MaxCols == 3

----------------------------------------------------------------------------
(* Characters and strings *)

UpperCase == <<"A","B","C","D","E","F","G","H","I","J","K","L","M",
               "N","O","P","Q","R","S","T","U","V","W","X","Y","Z">>
LowerCase == <<"a","b","c","d","e","f","g","h","i","j","k","l","m",
               "n","o","p","q","r","s","t","u","v","w","x","y","z">>
Digits == <<"0","1","2","3","4","5","6","7","8","9">>

Range(s) == {s[i] : i \in 1..Len(s)}

IsUpper(c) == c \in Range(UpperCase)
IsLower(c) == c \in Range(LowerCase)
IsDigit(c) == c \in Range(Digits)
IsAsciiAlnum(c) == IsUpper(c) \/ IsLower(c) \/ IsDigit(c)
\* what the regex class \s and str.strip() treat as whitespace
IsSpace(c) == c \in {" ", "\t"}

LowerChar(c) ==
    IF IsUpper(c) THEN LowerCase[CHOOSE i \in 1..Len(UpperCase) : UpperCase[i] = c]
    ELSE c

\* str.lower()
lower(s) == [i \in 1..Len(s) |-> LowerChar(s[i])]

RECURSIVE lstrip(_)
lstrip(s) == IF s # <<>> /\ IsSpace(Head(s)) THEN lstrip(Tail(s)) ELSE s

RECURSIVE rstrip(_)
rstrip(s) ==
    IF s # <<>> /\ IsSpace(s[Len(s)]) THEN rstrip(SubSeq(s, 1, Len(s) - 1)) ELSE s

\* str.strip()
strip(s) == rstrip(lstrip(s))

\* keyword in s
Contains(sub, s) ==
    \E i \in 0..(Len(s) - Len(sub)) : SubSeq(s, i + 1, i + Len(sub)) = sub

\* re.sub(r'[^a-zA-Z0-9\s]', '', s)
RemoveSpecial(s) == SelectSeq(s, LAMBDA c : IsAsciiAlnum(c) \/ IsSpace(c))

\* re.sub(r'\s+', ' ', s)
RECURSIVE CollapseSpaces(_)
CollapseSpaces(s) ==
    IF s = <<>> THEN <<>>
    ELSE IF IsSpace(Head(s)) THEN <<" ">> \o CollapseSpaces(lstrip(Tail(s)))
    ELSE <<Head(s)>> \o CollapseSpaces(Tail(s))

----------------------------------------------------------------------------
(* Cells *)

Null == [k |-> "null"]
StrCell(s) == [k |-> "str", s |-> s]
IntCell(n) == [k |-> "int", n |-> n]

\* pd.isna / pd.notna on a scalar
isna(x) == x.k = "null"
notna(x) == ~isna(x)

RECURSIVE DecimalDigits(_)
DecimalDigits(n) ==
    IF n < 10 THEN <<Digits[n + 1]>>
    ELSE DecimalDigits(n \div 10) \o <<Digits[(n % 10) + 1]>>

\* str(x)
str(x) ==
    CASE x.k = "str" -> x.s
      [] x.k = "int" -> DecimalDigits(x.n)
      [] OTHER -> <<"n", "a", "n">>

----------------------------------------------------------------------------
(* clean_vessel_name, file_handler.py 140-146 *)

\* a plausible slip: the name is trimmed before, not after, the special
\* characters are removed
clean_vessel_name_StripFirst(name) ==
    IF isna(name) THEN <<>>
    ELSE lower(CollapseSpaces(RemoveSpecial(strip(str(name)))))

\* a plausible slip: .lower() forgotten
clean_vessel_name_NoLower(name) ==
    IF isna(name) THEN <<>>
    ELSE strip(CollapseSpaces(RemoveSpecial(str(name))))

clean_vessel_name(name) ==
    IF isna(name) THEN <<>>
    ELSE lower(strip(CollapseSpaces(RemoveSpecial(str(name)))))

----------------------------------------------------------------------------
(* Tables (pandas DataFrame) *)

NoTable == [none |-> TRUE]
IsTable(t) == "columns" \in DOMAIN t

Table(cols, rows) == [columns |-> cols, rows |-> rows]

Indices(s) == [i \in 1..Len(s) |-> i]

\* c in df.columns
HasColumn(t, c) == c \in Range(t.columns)
ColumnIndex(t, c) == CHOOSE i \in 1..Len(t.columns) : t.columns[i] = c

\* df[c]
Column(t, c) == [i \in 1..Len(t.rows) |-> t.rows[i][ColumnIndex(t, c)]]

\* df.empty
empty(t) == Len(t.rows) = 0 \/ Len(t.columns) = 0

\* df[c] = vals : replaces the column named c, or appends it as the last one
SetColumn(t, c, vals) ==
    IF HasColumn(t, c)
    THEN Table(t.columns,
               [i \in 1..Len(t.rows) |->
                   [t.rows[i] EXCEPT ![ColumnIndex(t, c)] = vals[i]]])
    ELSE Table(Append(t.columns, c),
               [i \in 1..Len(t.rows) |-> Append(t.rows[i], vals[i])])

\* df[[c1, c2, ...]] ; KeyError unless every name is a column, which the caller tests first
SelectColumns(t, cs) ==
    Table(cs, [i \in 1..Len(t.rows) |->
                  [j \in 1..Len(cs) |-> t.rows[i][ColumnIndex(t, cs[j])]]])

\* df.drop(columns=[c])
DropColumn(t, c) ==
    LET keep == SelectSeq(Indices(t.columns), LAMBDA j : t.columns[j] # c)
    IN  Table([j \in 1..Len(keep) |-> t.columns[keep[j]]],
              [i \in 1..Len(t.rows) |->
                  [j \in 1..Len(keep) |-> t.rows[i][keep[j]]]])

RECURSIVE Flatten(_)
Flatten(ss) == IF ss = <<>> THEN <<>> ELSE Head(ss) \o Flatten(Tail(ss))

\* a plausible slip: the fleet reference deduplicated by key before the join,
\* so that a primary row joins the first fleet row with its key only
MatchesOf_First(left, right, on, i) ==
    SelectSeq(Indices(right.rows),
              LAMBDA j : /\ right.rows[j][ColumnIndex(right, on)]
                             = left.rows[i][ColumnIndex(left, on)]
                         /\ \A k \in 1..(j - 1) :
                               right.rows[k][ColumnIndex(right, on)]
                                 # left.rows[i][ColumnIndex(left, on)])

\* the fleet rows a primary row joins: those with an equal key, in fleet order
MatchesOf(left, right, on, i) ==
    SelectSeq(Indices(right.rows),
              LAMBDA j : right.rows[j][ColumnIndex(right, on)]
                           = left.rows[i][ColumnIndex(left, on)])

\* a plausible slip: how='inner', which drops the unmatched primary rows
UnmatchedRows_Inner(lrow, n) == <<>>

\* how='left': a primary row no fleet row matches is kept once, with nulls in
\* the n fleet-derived columns
UnmatchedRows(lrow, n) == << lrow \o [j \in 1..n |-> Null] >>

\* left.merge(right, on=on, how='left') : every left row, in left order, once
\* per right row with an equal key (in right order), or once with nulls when
\* there is none; a non-key column name the two sides share gets the
\* suffixes _x (left) and _y (right)
merge(left, right, on) ==
    LET rest == SelectSeq(Indices(right.columns), LAMBDA j : right.columns[j] # on)
        overlap == (Range(left.columns) \cap Range(right.columns)) \ {on}
        lcols == [j \in 1..Len(left.columns) |->
                    IF left.columns[j] \in overlap
                    THEN left.columns[j] \o <<"_", "x">> ELSE left.columns[j]]
        rcols == [j \in 1..Len(rest) |->
                    IF right.columns[rest[j]] \in overlap
                    THEN right.columns[rest[j]] \o <<"_", "y">>
                    ELSE right.columns[rest[j]]]
        rowsFor(i) ==
            LET m == MatchesOf(left, right, on, i)
            IN  IF m = <<>>
                THEN UnmatchedRows(left.rows[i], Len(rest))
                ELSE [n \in 1..Len(m) |->
                        left.rows[i] \o [j \in 1..Len(rest) |-> right.rows[m[n]][rest[j]]]]
    IN  Table(lcols \o rcols, Flatten([i \in 1..Len(left.rows) |-> rowsFor(i)]))

----------------------------------------------------------------------------
(* Diagnostics (streamlit calls) *)

Info(text) == [level |-> "info", text |-> text]
Warning(text) == [level |-> "warning", text |-> text]
Error(text) == [level |-> "error", text |-> text]
\* st.success(f"Fleet data merged successfully! {matched}/{total} records matched ...")
MergeSuccess(matched, total) ==
    [level |-> "success", text |-> "Fleet data merged successfully!",
     matched |-> matched, total |-> total]

----------------------------------------------------------------------------
(* Header names *)

Vessel == <<"V","e","s","s","e","l">>
vessel_cleaned == <<"v","e","s","s","e","l","_","c","l","e","a","n","e","d">>
Fleet == <<"F","l","e","e","t">>
Type == <<"T","y","p","e">>
IMO == <<"I","M","O">>
ManagementUnit ==
    <<"M","a","n","a","g","e","m","e","n","t"," ","U","n","i","t">>
FleetName == <<"F","l","e","e","t"," ","N","a","m","e">>

kw_vessel == <<"v","e","s","s","e","l">>
kw_ship == <<"s","h","i","p">>
kw_boat == <<"b","o","a","t">>
kw_fleet == <<"f","l","e","e","t">>

----------------------------------------------------------------------------
(* _split_fleet_column, file_handler.py 192-209 *)

\* a plausible slip: rsplit, which cuts at the last space
SplitOnce_Last(s, sep) ==
    IF sep \in Range(s)
    THEN LET i == CHOOSE i \in 1..Len(s) :
                      s[i] = sep /\ \A j \in (i + 1)..Len(s) : s[j] # sep
         IN  << SubSeq(s, 1, i - 1), SubSeq(s, i + 1, Len(s)) >>
    ELSE << s >>

\* s.split(sep, 1) for a one-character sep: <<s>> when sep does not occur
SplitOnce(s, sep) ==
    IF sep \in Range(s)
    THEN LET i == CHOOSE i \in 1..Len(s) :
                      s[i] = sep /\ \A j \in 1..(i - 1) : s[j] # sep
         IN  << SubSeq(s, 1, i - 1), SubSeq(s, i + 1, Len(s)) >>
    ELSE << s >>

\* a plausible slip: the pd.notna guard forgotten, so NaN becomes "nan"
ManagementUnitOf_NoNaGuard(x) ==
    IF " " \in Range(str(x)) THEN SplitOnce(str(x), " ")[1] ELSE str(x)

\* the lambda of line 197
ManagementUnitOf(x) ==
    IF notna(x) /\ " " \in Range(str(x)) THEN SplitOnce(str(x), " ")[1]
    ELSE IF notna(x) THEN str(x)
    ELSE <<>>

\* the lambda of line 201
FleetNameOf(x) ==
    IF notna(x) /\ " " \in Range(str(x)) /\ Len(SplitOnce(str(x), " ")) > 1
    THEN SplitOnce(str(x), " ")[2]
    ELSE <<>>

\* returns the table and the diagnostics it emitted; with scalar cells and
\* fleet_col naming one column none of the statements in the try block raises
_split_fleet_column(data, fleet_col) ==
    LET col == Column(data, fleet_col)
        d1 == SetColumn(data, ManagementUnit,
                        [i \in 1..Len(col) |-> StrCell(ManagementUnitOf(col[i]))])
        d2 == SetColumn(d1, FleetName,
                        [i \in 1..Len(col) |-> StrCell(FleetNameOf(col[i]))])
    IN  [data |-> d2,
         messages |-> << Info("Fleet column split into 'Management Unit' and 'Fleet Name' columns.") >>]

----------------------------------------------------------------------------
(* Files and loaders *)

\* An uploaded file is [name, content]. The content is what reading the
\* bytes gives: the table pandas parses from them under any encoding (a
\* workbook sheet, or a CSV file of ASCII bytes), Unreadable when the reader
\* raises whatever the encoding (not a workbook, a malformed file), or
\* CsvBytes: a CSV file given byte by byte, whose reading depends on the
\* encoding.
NoFile == [none |-> TRUE]
Unreadable == [unreadable |-> TRUE]
File(name, content) == [name |-> name, content |-> content]

\* exceptions: the class and the parts of str(e)
ValueError(text) == [type |-> "ValueError", text |-> text]
UnicodeDecodeError == [type |-> "UnicodeDecodeError", text |-> << "codec can't decode byte" >>]
ParserError == [type |-> "ParserError", text |-> << "Error tokenizing data" >>]
EmptyDataError == [type |-> "EmptyDataError", text |-> << "No columns to parse from file" >>]

Raised(e) == [raised |-> TRUE, df |-> NoTable, messages |-> <<>>, error |-> e]
Loaded(df, msgs) == [raised |-> FALSE, df |-> df, messages |-> msgs]

\* s.endswith(suffix), s.startswith(prefix)
endswith(s, suffix) ==
    Len(s) >= Len(suffix) /\ SubSeq(s, Len(s) - Len(suffix) + 1, Len(s)) = suffix
startswith(s, prefix) ==
    Len(s) >= Len(prefix) /\ SubSeq(s, 1, Len(prefix)) = prefix

\* s.split('.')[-1]
RECURSIVE AfterLastDot(_)
AfterLastDot(s) ==
    IF "." \in Range(s) THEN AfterLastDot(SplitOnce(s, ".")[2]) ELSE s

----------------------------------------------------------------------------
(* _clean_dataframe, file_handler.py 89-112 *)

Unnamed == <<"U","n","n","a","m","e","d",":">>

\* the table of the columns at the positions keep
KeepColumns(t, keep) ==
    Table([j \in 1..Len(keep) |-> t.columns[keep[j]]],
          [i \in 1..Len(t.rows) |-> [j \in 1..Len(keep) |-> t.rows[i][keep[j]]]])

\* df.dropna(how='all'): the rows with a cell that is not null
dropna_rows(t) ==
    Table(t.columns,
          SelectSeq(t.rows, LAMBDA row : \E j \in 1..Len(row) : notna(row[j])))

\* df.dropna(axis=1, how='all'): the columns with a cell that is not null
dropna_columns(t) ==
    KeepColumns(t, SelectSeq(Indices(t.columns),
                     LAMBDA j : \E i \in 1..Len(t.rows) : notna(t.rows[i][j])))

\* line 98, on headers that are strings already (astype(str) leaves a string
\* as it is)
strip_columns(t) ==
    Table([j \in 1..Len(t.columns) |-> strip(t.columns[j])], t.rows)

\* lines 101-104: the loop over the names that start with 'Unnamed:'. df[col]
\* is one column when the name is unique; when two columns bear the name it
\* is a frame, .isna().all() is a Series and its truth value raises.
RECURSIVE DropUnnamed(_, _)
DropUnnamed(t, cols) ==
    IF cols = <<>> THEN Loaded(t, <<>>)
    ELSE LET col == Head(cols)
             at == {j \in 1..Len(t.columns) : t.columns[j] = col}
         IN  IF Cardinality(at) # 1
             THEN Raised(ValueError(<< "The truth value of a Series is ambiguous" >>))
             ELSE IF \A i \in 1..Len(t.rows) : isna(Column(t, col)[i])
                  THEN DropUnnamed(DropColumn(t, col), Tail(cols))
                  ELSE DropUnnamed(t, Tail(cols))

\* a plausible slip: the first emptiness test only, no test after cleaning
AfterCleaning_NoTest(t) == Loaded(t, <<>>)

\* lines 107-112; reset_index renumbers the rows 0..n-1, which is their
\* position in rows
AfterCleaning(t) ==
    IF empty(t) THEN Raised(ValueError(<< "No valid data found after cleaning" >>))
    ELSE Loaded(t, <<>>)

\* lines 107-112 are reached unless the loop raised
AfterUnnamed(d) == IF d.raised THEN d ELSE AfterCleaning(d.df)

\* line 101
unnamed_cols(t) == SelectSeq(t.columns, LAMBDA col : startswith(col, Unnamed))

\* lines 101-112, on the table of line 98
CleanNamed(t) == AfterUnnamed(DropUnnamed(t, unnamed_cols(t)))

\* the row labels of a table as read: pandas numbers the rows 0, 1, ...
RangeIndex(n) == [i \in 1..n |-> i - 1]

\* the labels df.dropna(how='all') keeps (line 99): those of the rows with a
\* cell that is not null, in order
dropna_labels(df) ==
    SelectSeq(RangeIndex(Len(df.rows)),
              LAMBDA l : \E j \in 1..Len(df.rows[l + 1]) : notna(df.rows[l + 1][j]))

\* a plausible slip: line 107 left out, the labels stay those of the input
reset_index_Kept(labels) == labels

\* df.reset_index(drop=True) (line 107): the rows are renumbered from 0
reset_index(labels) == RangeIndex(Len(labels))

\* the row labels of the table _clean_dataframe returns
index_of_cleaned(df) == reset_index(dropna_labels(df))

_clean_dataframe(df) ==
    IF empty(df) THEN Raised(ValueError(<< "The uploaded file is empty" >>))
    ELSE CleanNamed(strip_columns(dropna_columns(dropna_rows(df))))

----------------------------------------------------------------------------
(* _process_csv, file_handler.py 36-65, and _process_excel, 67-87 *)

\* CSV bytes: the encoding chardet detects (None when it detects none), the
\* fields as strings of bytes (an ASCII byte is written as its character),
\* and whether the last line is ragged, which makes the tokenizer raise once
\* everything before it has decoded
None == "None"
CsvBytes(detected, bytes, ragged) ==
    [detected |-> detected, bytes |-> bytes, ragged |-> ragged]
IsCsvBytes(c) == "bytes" \in DOMAIN c

utf_8 == "utf-8"
latin_1 == "latin-1"
cp1252 == "cp1252"
iso_8859_1 == "iso-8859-1"

\* the two bytes above 0x7F of the inputs; alone, neither is valid UTF-8,
\* and cp1252 has no character for 0x81
HighBytes == {"0xE9", "0x81"}

\* a byte decodes under the encoding
Decodes(enc, byte) ==
    CASE enc \in {latin_1, iso_8859_1} -> TRUE
      [] enc = cp1252 -> byte # "0x81"
      [] OTHER -> byte \notin HighBytes

\* the character of a byte that decodes
DecodeByte(enc, byte) ==
    IF byte = "0xE9" THEN "U+00E9"
    ELSE IF byte = "0x81" THEN "U+0081"
    ELSE byte

DecodeStr(enc, bs) == [i \in 1..Len(bs) |-> DecodeByte(enc, bs[i])]

DecodeCell(enc, c) == IF c.k = "str" THEN StrCell(DecodeStr(enc, c.s)) ELSE c

CellBytes(c) == IF c.k = "str" THEN Range(c.s) ELSE {}

\* every byte of the headers and of the fields
BytesOf(t) ==
    UNION {Range(t.columns[j]) : j \in 1..Len(t.columns)}
    \cup UNION {CellBytes(t.rows[i][j]) :
                  i \in 1..Len(t.rows), j \in 1..Len(t.columns)}

\* pd.read_csv(uploaded_file, encoding=enc), lines 49 and 58
read_csv(content, enc) ==
    IF IsTable(content) THEN Loaded(content, <<>>)
    ELSE IF ~IsCsvBytes(content) THEN Raised(ParserError)
    ELSE IF \E b \in BytesOf(content.bytes) : ~Decodes(enc, b)
         THEN Raised(UnicodeDecodeError)
    ELSE IF content.ragged THEN Raised(ParserError)
    ELSE IF content.bytes.columns = <<>> THEN Raised(EmptyDataError)
    ELSE Loaded(Table([j \in 1..Len(content.bytes.columns) |->
                          DecodeStr(enc, content.bytes.columns[j])],
                      [i \in 1..Len(content.bytes.rows) |->
                          [j \in 1..Len(content.bytes.columns) |->
                              DecodeCell(enc, content.bytes.rows[i][j])]]),
                <<>>)

\* lines 43-44: the detected encoding, utf-8 when none is detected
DetectedEncoding(content) ==
    IF IsCsvBytes(content) /\ content.detected # None
    THEN content.detected ELSE utf_8

\* one attempt, lines 49-51 and 57-58: reading, then cleaning what was read
CleanRead(r) == IF r.raised THEN r ELSE _clean_dataframe(r.df)
TryEncoding(content, enc) == CleanRead(read_csv(content, enc))

UnableToDecode ==
    Raised(ValueError(<< "Unable to decode CSV file with any supported encoding" >>))

\* lines 55-62: the loop over the fallback encodings; the bare except takes
\* every exception of read_csv and of _clean_dataframe
RECURSIVE Fallback(_, _)
OrNextEncoding(c, content, encodings) ==
    IF c.raised THEN Fallback(content, encodings) ELSE c

Fallback(content, encodings) ==
    IF encodings = <<>> THEN UnableToDecode
    ELSE OrNextEncoding(TryEncoding(content, Head(encodings)), content, Tail(encodings))

\* a plausible slip: one "except Exception" around the first attempt, the
\* fallback encodings tried after any failure
AfterFirstAttempt_AnyFailure(c, content) ==
    IF ~c.raised THEN c
    ELSE Fallback(content, << latin_1, cp1252, iso_8859_1 >>)

\* lines 53-65: what becomes of the first attempt c
AfterFirstAttempt(c, content) ==
    IF ~c.raised THEN c
    ELSE IF c.error.type = "UnicodeDecodeError"
         THEN Fallback(content, << latin_1, cp1252, iso_8859_1 >>)
         ELSE Raised(ValueError(<< "Error reading CSV file" >> \o c.error.text))

_process_csv(f) ==
    AfterFirstAttempt(TryEncoding(f.content, DetectedEncoding(f.content)), f.content)

\* lines 86-87
ExcelResult(r) ==
    IF r.raised
    THEN Raised(ValueError(<< "Error reading Excel file" >> \o r.error.text))
    ELSE r

\* the content of a workbook file is the sheet read (the only one, or the
\* one chosen in the selectbox); CSV bytes are not a workbook
_process_excel(f) ==
    ExcelResult(IF IsTable(f.content) THEN _clean_dataframe(f.content)
                ELSE Raised(ParserError))

ext_csv == <<"c","s","v">>
ext_xlsx == <<"x","l","s","x">>
ext_xls == <<"x","l","s">>
dot_csv == <<".","c","s","v">>

----------------------------------------------------------------------------
(* _merge_with_fleet_data, file_handler.py 114-190 *)

\* lines 119-133: the fleet reference is the uploaded fleet file when the
\* session holds one, else the bundled workbook (dflt: a table, or Unreadable
\* when pd.read_excel raises, e.g. the file is not there)
LoadFleetData(fleet_file, dflt) ==
    IF fleet_file # NoFile
    THEN LET r == IF endswith(fleet_file.name, dot_csv)
                  THEN _process_csv(fleet_file)
                  ELSE _process_excel(fleet_file)
         IN  IF r.raised THEN r
             ELSE Loaded(r.df, << Info("Using uploaded fleet file for data merging.") >>)
    ELSE IF IsTable(dflt)
         THEN Loaded(dflt, << Info("Using default fleet file for data merging.") >>)
         ELSE Raised(ParserError)

\* lines 149-150
fleet_vessel_col(fleet_data) ==
    LET cand == SelectSeq(fleet_data.columns,
                   LAMBDA col : \E kw \in {kw_vessel, kw_ship, kw_boat} :
                                    Contains(kw, lower(col)))
    IN  IF cand # <<>> THEN cand[1] ELSE fleet_data.columns[1]

\* a plausible slip: the keyword looked for in the header as it is written
fleet_col_CaseSensitive(fleet_data) ==
    LET cand == SelectSeq(fleet_data.columns, LAMBDA col : Contains(kw_fleet, col))
    IN  IF cand # <<>> THEN cand[1] ELSE Fleet

\* a plausible slip: the fallback is the fleet reference's last column
fleet_col_FallbackLast(fleet_data) ==
    LET cand == SelectSeq(fleet_data.columns,
                          LAMBDA col : Contains(kw_fleet, lower(col)))
    IN  IF cand # <<>> THEN cand[1] ELSE fleet_data.columns[Len(fleet_data.columns)]

\* lines 153-154
fleet_col(fleet_data) ==
    LET cand == SelectSeq(fleet_data.columns,
                          LAMBDA col : Contains(kw_fleet, lower(col)))
    IN  IF cand # <<>> THEN cand[1] ELSE Fleet

\* lines 161-165
merge_columns(fleet_data, fc) ==
    << vessel_cleaned, fc >>
        \o (IF HasColumn(fleet_data, Type) THEN << Type >> ELSE <<>>)
        \o (IF HasColumn(fleet_data, IMO) THEN << IMO >> ELSE <<>>)

\* a plausible slip: "except: pass", the failure swallowed without a word
Degraded_Silent(eform_data, msgs) == [ret |-> eform_data, messages |-> msgs]

\* a plausible slip: the except branch gives up the ingestion, "return None"
Degraded_ReturnsNone(eform_data, msgs) ==
    [ret |-> NoTable,
     messages |-> Append(msgs,
        Warning("Could not merge fleet data. Proceeding with E-form data only."))]

\* lines 188-190: the except branch returns the object eform_data names, as
\* it is at that moment
Degraded(eform_data, msgs) ==
    [ret |-> eform_data,
     messages |-> Append(msgs,
        Warning("Could not merge fleet data. Proceeding with E-form data only."))]

\* the cleaned keys of a column, as string cells
CleanedKeys(t, c) ==
    [i \in 1..Len(t.rows) |-> StrCell(clean_vessel_name(Column(t, c)[i]))]

\* a plausible slip: the primary key column inferred like the fleet's
eform_vessel_col_Inferred(eform_data) == fleet_vessel_col(eform_data)

\* line 157: the primary key column is the literal 'Vessel'
eform_vessel_col(eform_data) == Vessel

\* lines 156-186, given the loaded fleet_data and the diagnostics so far.
\* eform_data['vessel_cleaned'] = ... (line 157) is an assignment into the
\* caller's table, so every later failure returns the table with that column.
MergeSteps(eform_data, fleet_data, msgs) ==
    IF ~HasColumn(eform_data, eform_vessel_col(eform_data))
    THEN Degraded(eform_data, msgs)                      \* KeyError, line 157
    ELSE
    LET fc == fleet_col(fleet_data)
        eform1 == SetColumn(eform_data, vessel_cleaned,
                            CleanedKeys(eform_data, eform_vessel_col(eform_data)))
        fleet1 == SetColumn(fleet_data, vessel_cleaned,
                            CleanedKeys(fleet_data, fleet_vessel_col(fleet_data)))
        cols == merge_columns(fleet1, fc)
    IN  IF \E c \in Range(cols) : ~HasColumn(fleet1, c)
        THEN Degraded(eform1, msgs)                      \* KeyError, line 169
        ELSE
        LET merged == DropColumn(merge(eform1, SelectColumns(fleet1, cols),
                                       vessel_cleaned),
                                 vessel_cleaned)
            sp == IF HasColumn(merged, fc)
                  THEN _split_fleet_column(merged, fc)
                  ELSE [data |-> merged, messages |-> <<>>]
            fleet_matches ==
                IF HasColumn(sp.data, fc)
                THEN Cardinality({i \in 1..Len(sp.data.rows) :
                                    notna(Column(sp.data, fc)[i])})
                ELSE 0
        IN  [ret |-> sp.data,
             messages |-> msgs \o sp.messages
                 \o << MergeSuccess(fleet_matches, Len(sp.data.rows)) >>]

_merge_with_fleet_data(eform_data, fleet_file, dflt) ==
    LET load == LoadFleetData(fleet_file, dflt)
    IN  IF load.raised THEN Degraded(eform_data, load.messages)
        ELSE IF empty(load.df)
        THEN [ret |-> eform_data,
              messages |-> Append(load.messages,
                                  Warning("No fleet data available for merging."))]
        ELSE MergeSteps(eform_data, load.df, load.messages)

----------------------------------------------------------------------------
(* process_file, file_handler.py 13-34 *)

\* a plausible slip: no else branch, every other extension read as a workbook
LoadPrimary_AnyExtension(f) ==
    IF lower(AfterLastDot(f.name)) = ext_csv THEN _process_csv(f) ELSE _process_excel(f)

\* lines 15-28: the loader the extension selects
LoadPrimary(f) ==
    LET file_extension == lower(AfterLastDot(f.name))
    IN  IF file_extension = ext_csv THEN _process_csv(f)
        ELSE IF file_extension \in {ext_xlsx, ext_xls} THEN _process_excel(f)
        ELSE Raised(ValueError(<< "Unsupported file format" >>))

\* st.error(f"Error processing file: {str(e)}"), line 33
ProcessingError(e) ==
    [level |-> "error", text |-> "Error processing file", detail |-> e.text]

\* lines 30-34, for the outcome r of the loader
AfterLoad(r, fleet_file, dflt) ==
    IF r.raised
    THEN [ret |-> NoTable, messages |-> << ProcessingError(r.error) >>]
    ELSE _merge_with_fleet_data(r.df, fleet_file, dflt)

process_file(f, fleet_file, dflt) == AfterLoad(LoadPrimary(f), fleet_file, dflt)

\* the CleanTable process_file hands to the merge (NoTable when loading fails)
TableOf(r) == IF r.raised THEN NoTable ELSE r.df
CleanTableOf(f) == TableOf(LoadPrimary(f))

----------------------------------------------------------------------------
(* main, app.py 25-105, and DataProcessor.__init__, data_processor.py 8-20 *)

E_Form == <<"E","-","F","o","r","m">>
kw_job == <<"j","o","b">>
kw_work == <<"w","o","r","k">>
kw_task == <<"t","a","s","k">>
kw_project == <<"p","r","o","j","e","c","t">>
kw_code == <<"c","o","d","e">>

\* app.py 31-34: the session before the first upload; no config is stored
NoConfig == [none |-> TRUE]
SessionStart == [data |-> NoTable, analysis_complete |-> FALSE, config |-> NoConfig]

\* the main area: nothing yet, the welcome text (app.py 107-134), the
\* dashboard (105), or the exception that left main (99)
NoScreen == [view |-> "none"]
Welcome == [view |-> "welcome"]
Dashboard == [view |-> "dashboard"]
Exception(e) == [view |-> "exception", error |-> e]

\* app.py 77
vessel_candidates(columns) ==
    SelectSeq(columns, LAMBDA col : \E kw \in {kw_vessel, kw_ship, kw_boat} :
                                       Contains(kw, lower(col)))

\* a plausible slip: the keyword 'code' left out of the list
job_candidates_NoCode(columns) ==
    SelectSeq(columns, LAMBDA col : \E kw \in {kw_job, kw_work, kw_task, kw_project} :
                                       Contains(kw, lower(col)))

\* app.py 78
job_candidates(columns) ==
    SelectSeq(columns, LAMBDA col : \E kw \in {kw_job, kw_work, kw_task, kw_project, kw_code} :
                                       Contains(kw, lower(col)))

\* app.py 81-85
FirstOr(candidates, otherwise) ==
    IF candidates # <<>> THEN candidates[1] ELSE otherwise

DetectConfig(columns) ==
    [vessel_col |-> FirstOr(vessel_candidates(columns), columns[1]),
     job_col |-> FirstOr(job_candidates(columns),
                         IF Len(columns) > 1 THEN columns[2] ELSE columns[1]),
     eform_col |-> E_Form]

\* data_processor.py 15-17
required_cols(config) == << config.vessel_col, config.job_col, config.eform_col >>

\* a plausible slip: the e-form column left out of the test
missing_cols_RolesOnly(data, config) ==
    SelectSeq(<< config.vessel_col, config.job_col >>,
              LAMBDA col : ~HasColumn(data, col))

\* data_processor.py 18
missing_cols(data, config) ==
    SelectSeq(required_cols(config), LAMBDA col : ~HasColumn(data, col))

MissingRequiredColumns(cols) ==
    [type |-> "ValueError", text |-> << "Missing required columns" >>, missing |-> cols]

\* app.py 94-134: the main area for a session. DataProcessor(data, config),
\* line 99, is under no try: its ValueError (data_processor.py 19-20) leaves
\* main, before any other component of the dashboard is built.
\* data_processor.py 18-20, then app.py 100-105
Construct(missing) ==
    IF missing # <<>> THEN Exception(MissingRequiredColumns(missing)) ELSE Dashboard

MainArea(sess) ==
    IF sess.analysis_complete /\ sess.data # NoTable
    THEN Construct(missing_cols(sess.data, sess.config))
    ELSE Welcome

\* a plausible slip: the flag raised before the test of line 69
Ingest_FlagFirst(sess, r) ==
    IF r.ret # NoTable /\ ~empty(r.ret)
    THEN [session |-> [data |-> r.ret, analysis_complete |-> TRUE,
                       config |-> DetectConfig(r.ret.columns)],
          messages |-> Append(r.messages,
                              [level |-> "success", text |-> "File loaded successfully!",
                               rows |-> Len(r.ret.rows), columns |-> Len(r.ret.columns)]),
          returned |-> r.ret]
    ELSE [session |-> [sess EXCEPT !.analysis_complete = TRUE],
          messages |-> Append(r.messages, Error("Failed to load file or file is empty")),
          returned |-> r.ret]

\* a plausible slip: a failed ingestion clears the session
Ingest_ClearsOnFailure(sess, r) ==
    IF r.ret # NoTable /\ ~empty(r.ret)
    THEN [session |-> [data |-> r.ret, analysis_complete |-> TRUE,
                       config |-> DetectConfig(r.ret.columns)],
          messages |-> Append(r.messages,
                              [level |-> "success", text |-> "File loaded successfully!",
                               rows |-> Len(r.ret.rows), columns |-> Len(r.ret.columns)]),
          returned |-> r.ret]
    ELSE [session |-> SessionStart,
          messages |-> Append(r.messages, Error("Failed to load file or file is empty")),
          returned |-> r.ret]

\* app.py 65-91: the upload branch, for the table and diagnostics of process_file
Ingest(sess, r) ==
    IF r.ret # NoTable /\ ~empty(r.ret)
    THEN [session |-> [data |-> r.ret, analysis_complete |-> TRUE,
                       config |-> DetectConfig(r.ret.columns)],
          messages |-> Append(r.messages,
                              [level |-> "success", text |-> "File loaded successfully!",
                               rows |-> Len(r.ret.rows), columns |-> Len(r.ret.columns)]),
          returned |-> r.ret]
    ELSE [session |-> sess,
          messages |-> Append(r.messages, Error("Failed to load file or file is empty")),
          returned |-> r.ret]

----------------------------------------------------------------------------
(* String literals used by the inputs *)

Job == <<"J","o","b">>
VesselName == <<"V","e","s","s","e","l"," ","N","a","m","e">>
Ship == <<"S","h","i","p">>
FLEET_UPPER == <<"F","L","E","E","T">>
Name == <<"N","a","m","e">>
Owner == <<"O","w","n","e","r">>
n_MV_Star_slash == <<"M","/","V"," ","S","t","a","r">>
n_mv_star_lower == <<"m","v"," ","s","t","a","r">>
n_MV_STAR_wide == <<"M","V"," "," ","S","T","A","R">>
n_messy == <<" ","M","/","V"," ","\t","S","t","a","r","-","7"," ">>
n_MV_Star == <<"M","V"," ","S","t","a","r">>
n_Orca_7 == <<"O","r","c","a"," ","7">>
v_PACIFIC_NorthFleet == <<"P","A","C","I","F","I","C"," ","N","o","r","t","h","F","l","e","e","t">>
v_PACIFIC == <<"P","A","C","I","F","I","C">>
v_NorthFleet == <<"N","o","r","t","h","F","l","e","e","t">>
v_ALPHA_BETA_GAMMA == <<"A","L","P","H","A"," ","B","E","T","A"," ","G","A","M","M","A">>
v_ALPHA == <<"A","L","P","H","A">>
v_BETA_GAMMA == <<"B","E","T","A"," ","G","A","M","M","A">>
v_A_tab_B_C == <<"A","\t","B"," ","C">>
h_N_0xE9 == << "N", "0xE9" >>
n_no_alnum == << "*", "U+00E9", " ", "-" >>
n_dashes == << "-", " ", "-" >>
f_eform_csv == <<"e","f","o","r","m",".","c","s","v">>
f_eform_XLSX == <<"e","f","o","r","m",".","v","2",".","X","L","S","X">>
f_notes_txt == <<"n","o","t","e","s",".","t","x","t">>
f_fleet_csv == <<"f","l","e","e","t",".","c","s","v">>
f_fleet_xlsx == <<"f","l","e","e","t",".","x","l","s","x">>

----------------------------------------------------------------------------
(* Inputs *)

\* all sequences over A of length at most n
SeqsUpTo(A, n) == UNION {[1..k -> A] : k \in 0..n}
NonEmptySeqsUpTo(A, n) == UNION {[1..k -> A] : k \in 1..n}

\* the k-th row's second cell: a tag that tells the primary rows apart
RowTag(k) == StrCell(<<"r", Digits[k + 1]>>)

PrimaryColumns ==
    { <<Vessel, Job>>, <<VesselName, Job>>, <<Vessel, Fleet>>, <<Vessel, Type>> }
PrimaryVessels == { StrCell(n_MV_Star_slash), StrCell(n_MV_STAR_wide), Null }

\* what _clean_dataframe (lines 89-112) guarantees of a table it returns: it
\* has a row, and no row and no column holds nothing but nulls
IsClean(t) ==
    /\ ~empty(t)
    /\ \A i \in 1..Len(t.rows) : \E j \in 1..Len(t.columns) : notna(t.rows[i][j])
    /\ \A j \in 1..Len(t.columns) : \E i \in 1..Len(t.rows) : notna(t.rows[i][j])

\* cleaned primary tables: a vessel column and a second column, 1..MaxRows rows
PrimaryTables ==
    { t \in { Table(cols, [k \in 1..Len(vs) |-> << vs[k], RowTag(k) >>]) :
                cols \in PrimaryColumns,
                vs \in NonEmptySeqsUpTo(PrimaryVessels, MaxRows) } :
        IsClean(t) }

PrimaryFiles ==
    { File(f_eform_csv, t) : t \in PrimaryTables }
    \cup { File(f_eform_XLSX, Table(<<Vessel, Job>>, << <<StrCell(n_MV_Star_slash), RowTag(1)>> >>)),
           File(f_notes_txt, Table(<<Vessel, Job>>, << <<StrCell(n_MV_Star_slash), RowTag(1)>> >>)),
           File(f_eform_csv, Unreadable),
           File(f_eform_XLSX, Unreadable),
           \* a header-only CSV file, and one whose only row is blank
           File(f_eform_csv, Table(<<Vessel, Job>>, <<>>)),
           File(f_eform_XLSX, Table(<<Vessel, Job>>, << <<Null, Null>> >>)),
           \* vessel names without an ASCII letter or digit
           File(f_eform_csv, Table(<<Vessel, Job>>,
                   << <<StrCell(n_no_alnum), RowTag(1)>>, <<StrCell(n_MV_Star_slash), RowTag(2)>> >>)),
           File(f_eform_csv, Table(<<Vessel, Fleet>>, << <<StrCell(n_no_alnum), RowTag(1)>> >>)),
           \* CSV files that are not valid UTF-8: a header-only one, and one
           \* with a row, which loads as latin-1
           File(f_eform_csv, CsvBytes(None, Table(<<Vessel, h_N_0xE9>>, <<>>), FALSE)),
           File(f_eform_csv, CsvBytes(utf_8,
                   Table(<<Vessel, Job>>, << <<StrCell(<<"0xE9">>), StrCell(<<"a">>)>> >>),
                   FALSE)) }

FleetColumns ==
    { <<Vessel, Fleet>>, <<Type, Ship, FLEET_UPPER>>, <<Name, Owner>> }
\* <<vessel name, organizational value>> of a fleet row
FleetEntries ==
    { <<StrCell(n_MV_Star), StrCell(v_PACIFIC_NorthFleet)>>,
      <<StrCell(n_MV_Star), Null>>,
      <<StrCell(n_Orca_7), StrCell(v_PACIFIC_NorthFleet)>>,
      <<Null, StrCell(v_PACIFIC_NorthFleet)>> }

\* a fleet row for the given header: the vessel cell under the first header
\* that is not Type, the organizational cell under the last header
FleetRow(cols, v, o) ==
    IF Len(cols) = 2 THEN << v, o >> ELSE << StrCell(<<"T">>), v, o >>

FleetTables ==
    { t \in { Table(cols, [k \in 1..Len(rs) |-> FleetRow(cols, rs[k][1], rs[k][2])]) :
                cols \in FleetColumns,
                rs \in NonEmptySeqsUpTo(FleetEntries, MaxFleetRows) } :
        IsClean(t) }

FleetFiles ==
    { File(f_fleet_csv, t) : t \in FleetTables }
    \cup { File(f_fleet_xlsx,
                Table(<<Vessel, Fleet>>, << <<StrCell(n_MV_Star), StrCell(v_PACIFIC_NorthFleet)>> >>)),
           \* a vessel name without an ASCII letter or digit
           File(f_fleet_csv,
                Table(<<Vessel, Fleet>>,
                      << <<StrCell(n_dashes), StrCell(v_ALPHA_BETA_GAMMA)>>,
                         <<StrCell(n_MV_Star), StrCell(v_PACIFIC_NorthFleet)>> >>)),
           File(f_fleet_csv, Unreadable),
           File(f_fleet_xlsx, Unreadable) }

\* the bundled workbook: absent, without rows, or a small table
DefaultFleets ==
    { Unreadable,
      Table(<<Vessel, Fleet>>, <<>>),
      Table(<<Vessel, Fleet>>, << <<StrCell(n_MV_Star), StrCell(v_PACIFIC_NorthFleet)>> >>) }

----------------------------------------------------------------------------
(* Specification of one ingestion: process_file on an uploaded primary file *)

Init ==
    /\ pc = "ready"
    /\ uploaded_file \in PrimaryFiles
    /\ fleet_uploader = NoFile
    /\ \/ uploaded_fleet_file \in FleetFiles /\ default_fleet = Unreadable
       \/ uploaded_fleet_file = NoFile /\ default_fleet \in DefaultFleets
    /\ clean_table = NoTable
    /\ returned = NoTable
    /\ messages = <<>>
    /\ session = SessionStart
    /\ screen = NoScreen
    /\ arg = Null
    /\ out = Null

ProcessFile ==
    /\ pc = "ready"
    /\ LET r == process_file(uploaded_file, uploaded_fleet_file, default_fleet)
       IN  /\ returned' = r.ret
           /\ messages' = r.messages
    /\ clean_table' = CleanTableOf(uploaded_file)
    /\ pc' = "done"
    /\ UNCHANGED <<session, screen, uploaded_file, fleet_uploader, uploaded_fleet_file, default_fleet, arg, out>>

Next == ProcessFile

Spec == Init /\ [][Next]_vars

----------------------------------------------------------------------------
(* Specification of clean_vessel_name alone *)

NameChars == {"M", "v", "7", " ", "\t", "/", "U+00E9"}

NameInputs ==
    {Null}
    \cup { StrCell(n) : n \in SeqsUpTo(NameChars, MaxNameLen) }
    \cup { StrCell(n) : n \in {n_MV_Star_slash, n_mv_star_lower, n_MV_STAR_wide,
                               n_MV_Star, n_Orca_7, n_messy} }
    \cup { IntCell(n) : n \in {7, 42} }

InitNorm ==
    /\ pc = "norm"
    /\ arg \in NameInputs
    /\ out = Null
    /\ uploaded_file = NoFile
    /\ fleet_uploader = NoFile
    /\ uploaded_fleet_file = NoFile
    /\ default_fleet = Unreadable
    /\ clean_table = NoTable
    /\ returned = NoTable
    /\ messages = <<>>
    /\ session = SessionStart
    /\ screen = NoScreen

NormalizeName ==
    /\ pc = "norm"
    /\ out' = clean_vessel_name(arg)
    /\ pc' = "normed"
    /\ UNCHANGED <<session, screen, uploaded_file, fleet_uploader, uploaded_fleet_file,
                   default_fleet, clean_table, returned, messages, arg>>

NextNorm == NormalizeName

SpecNorm == InitNorm /\ [][NextNorm]_vars

----------------------------------------------------------------------------
(* Specification of _split_fleet_column alone, on a one-cell fleet column *)

ValueChars == {"A", "b", " ", "\t"}

SplitInputs ==
    {Null}
    \cup { StrCell(v) : v \in SeqsUpTo(ValueChars, MaxValueLen) }
    \cup { StrCell(v) : v \in {v_ALPHA_BETA_GAMMA, v_ALPHA, v_PACIFIC_NorthFleet,
                               v_A_tab_B_C} }
    \cup { IntCell(n) : n \in {7} }

InitSplit ==
    /\ pc = "split"
    /\ arg \in SplitInputs
    /\ out = Null
    /\ uploaded_file = NoFile
    /\ fleet_uploader = NoFile
    /\ uploaded_fleet_file = NoFile
    /\ default_fleet = Unreadable
    /\ clean_table = NoTable
    /\ returned = NoTable
    /\ messages = <<>>
    /\ session = SessionStart
    /\ screen = NoScreen

SplitValue ==
    /\ pc = "split"
    /\ LET r == _split_fleet_column(Table(<<Fleet>>, << <<arg>> >>), Fleet)
       IN  /\ out' = r.data
           /\ messages' = r.messages
    /\ pc' = "splitted"
    /\ UNCHANGED <<session, screen, uploaded_file, fleet_uploader, uploaded_fleet_file,
                   default_fleet, clean_table, returned, arg>>

NextSplit == SplitValue

SpecSplit == InitSplit /\ [][NextSplit]_vars

----------------------------------------------------------------------------
(* Specification of _clean_dataframe alone, on the tables a reader returns *)

Vessel_lead == <<" ">> \o Vessel
Vessel_trail == Vessel \o <<" ">>
Unnamed_0 == Unnamed \o <<" ", "0">>
Unnamed_0_lead == <<" ">> \o Unnamed_0
Unnamed_1 == Unnamed \o <<" ", "1">>

\* the headers of a raw table are pairwise distinct: the readers rename a
\* repeated header and name a blank one 'Unnamed: n'
RawColumns ==
    { << Vessel >>, << Vessel, Job >>, << Vessel_lead, Job >>,
      << Vessel, Vessel_trail >>, << Vessel, Unnamed_1 >>,
      << Unnamed_0, Unnamed_0_lead >>, << Vessel, Unnamed_1, Job >> }
RawCells == { Null, StrCell(<<"x">>), IntCell(7) }

RawTables ==
    { Table(<<>>, <<>>) } \cup
    UNION { { Table(cols, rows) : rows \in SeqsUpTo([1..Len(cols) -> RawCells], MaxRows) }
            : cols \in RawColumns }

InitClean ==
    /\ pc = "clean"
    /\ arg \in RawTables
    /\ out = Null
    /\ uploaded_file = NoFile
    /\ fleet_uploader = NoFile
    /\ uploaded_fleet_file = NoFile
    /\ default_fleet = Unreadable
    /\ clean_table = NoTable
    /\ returned = NoTable
    /\ messages = <<>>
    /\ session = SessionStart
    /\ screen = NoScreen

\* the result of _clean_dataframe with the row labels of the table it returns
Labelled(r, df) ==
    IF r.raised THEN r
    ELSE [raised |-> FALSE, df |-> r.df, messages |-> r.messages,
          index |-> index_of_cleaned(df)]

CleanDataframe ==
    /\ pc = "clean"
    /\ out' = Labelled(_clean_dataframe(arg), arg)
    /\ pc' = "cleaned"
    /\ UNCHANGED <<session, screen, uploaded_file, fleet_uploader, uploaded_fleet_file,
                   default_fleet, clean_table, returned, messages, arg>>

NextClean == CleanDataframe

SpecClean == InitClean /\ [][NextClean]_vars

----------------------------------------------------------------------------
(* Specification of _process_csv alone, on CSV files given byte by byte *)

\* the header line of the file; none when the file has no bytes
ByteColumns == { <<>>, << Vessel >>, << Vessel, Job >>, << Vessel, h_N_0xE9 >> }
ByteCells == { Null, StrCell(<<"a">>), StrCell(<<"0xE9">>), StrCell(<<"0x81">>) }

ByteTables ==
    UNION { { Table(cols, rows) :
                rows \in IF cols = <<>> THEN { <<>> }
                         ELSE SeqsUpTo([1..Len(cols) -> ByteCells], MaxRows) }
            : cols \in ByteColumns }

\* chardet names the encodings in its own spelling ('ISO-8859-1',
\* 'Windows-1252'); they are written here as the codecs they select
DetectedEncodings == { None, utf_8, latin_1, cp1252 }

CsvFiles ==
    { File(f_eform_csv, CsvBytes(d, t, g)) :
        d \in DetectedEncodings, t \in ByteTables, g \in BOOLEAN }

InitCsv ==
    /\ pc = "csv"
    /\ uploaded_file \in CsvFiles
    /\ out = Null
    /\ arg = Null
    /\ fleet_uploader = NoFile
    /\ uploaded_fleet_file = NoFile
    /\ default_fleet = Unreadable
    /\ clean_table = NoTable
    /\ returned = NoTable
    /\ messages = <<>>
    /\ session = SessionStart
    /\ screen = NoScreen

ProcessCsv ==
    /\ pc = "csv"
    /\ out' = _process_csv(uploaded_file)
    /\ pc' = "loaded"
    /\ UNCHANGED <<session, screen, uploaded_file, fleet_uploader, uploaded_fleet_file,
                   default_fleet, clean_table, returned, messages, arg>>

NextCsv == ProcessCsv

SpecCsv == InitCsv /\ [][NextCsv]_vars

----------------------------------------------------------------------------
(* Specification of the column inference of the merge alone (lines 148-154) *)

BOAT_No == <<"B","O","A","T"," ","N","o">>
Fleet_Vessel == <<"F","l","e","e","t"," ","V","e","s","s","e","l">>

HeaderPool == { Vessel, Ship, BOAT_No, Fleet, FLEET_UPPER, Fleet_Vessel, Name, Owner }

\* the header lists of a fleet reference: up to MaxCols distinct headers
HeaderLists ==
    { cols \in NonEmptySeqsUpTo(HeaderPool, MaxCols) :
        \A i, j \in 1..Len(cols) : i # j => cols[i] # cols[j] }

InitInfer ==
    /\ pc = "infer"
    /\ arg \in { Table(cols, << [j \in 1..Len(cols) |-> StrCell(<<"x">>)] >>) :
                   cols \in HeaderLists }
    /\ out = Null
    /\ uploaded_file = NoFile
    /\ fleet_uploader = NoFile
    /\ uploaded_fleet_file = NoFile
    /\ default_fleet = Unreadable
    /\ clean_table = NoTable
    /\ returned = NoTable
    /\ messages = <<>>
    /\ session = SessionStart
    /\ screen = NoScreen

InferColumns ==
    /\ pc = "infer"
    /\ out' = [vessel_col |-> fleet_vessel_col(arg), fleet_col |-> fleet_col(arg)]
    /\ pc' = "inferred"
    /\ UNCHANGED <<session, screen, uploaded_file, fleet_uploader, uploaded_fleet_file,
                   default_fleet, clean_table, returned, messages, arg>>

NextInfer == InferColumns

SpecInfer == InitInfer /\ [][NextInfer]_vars

----------------------------------------------------------------------------
(* Specification of the page: main run again and again, app.py 25-105 *)

Work_Order == <<"W","o","r","k"," ","O","r","d","e","r">>
SHIP_UPPER == <<"S","H","I","P">>
Code == <<"C","o","d","e">>

AppRow(cols) ==
    [j \in 1..Len(cols) |->
        IF cols[j] \in {Vessel, SHIP_UPPER, Name} THEN StrCell(n_MV_Star_slash)
        ELSE RowTag(j)]

AppColumns ==
    { << Vessel, Job, E_Form >>, << Vessel, Job >>, << Name, E_Form >>, << E_Form >>,
      << Work_Order, SHIP_UPPER, E_Form >>, << Vessel, E_Form, Code >> }

\* what the user puts in the e-form uploader
AppPrimaryFiles ==
    { File(f_eform_csv, Table(cols, << AppRow(cols) >>)) : cols \in AppColumns }
    \cup { File(f_notes_txt, Table(<< Vessel, Job, E_Form >>, << AppRow(<< Vessel, Job, E_Form >>) >>)),
           File(f_eform_csv, Unreadable),
           File(f_eform_csv, Table(<< Vessel, Job, E_Form >>, <<>>)) }

\* what the user puts in the fleet uploader
AppFleetFiles ==
    { File(f_fleet_csv, Table(<< Vessel, Fleet >>,
                              << << StrCell(n_MV_Star), StrCell(v_PACIFIC_NorthFleet) >> >>)),
      File(f_fleet_xlsx, Unreadable) }

InitApp ==
    /\ pc = "app"
    /\ uploaded_file = NoFile
    /\ fleet_uploader = NoFile
    /\ uploaded_fleet_file = NoFile
    /\ default_fleet \in { Unreadable,
                           Table(<< Ship, FLEET_UPPER >>,
                                 << << StrCell(n_MV_Star), StrCell(v_ALPHA_BETA_GAMMA) >> >>) }
    /\ clean_table = NoTable
    /\ returned = NoTable
    /\ messages = <<>>
    /\ session = SessionStart
    /\ screen = NoScreen
    /\ arg = Null
    /\ out = Null

\* the session, the diagnostics and the returned table after the upload branch
Store(g) ==
    /\ session' = g.session
    /\ messages' = g.messages
    /\ returned' = g.returned

\* a plausible slip: the session follows the uploader, also when it is cleared
StoredFleetFile_Widget(ff, stored) == ff

\* app.py 60-63: the session keeps the fleet file of the uploader when it
\* holds one, and what it had (None at first) when it holds none
StoredFleetFile(ff, stored) == IF ff # NoFile THEN ff ELSE stored

\* one run of main with the two uploaders holding u and ff (NoFile: empty)
Run(u, ff) ==
    /\ pc = "app"
    /\ uploaded_file' = u
    /\ fleet_uploader' = ff
    /\ uploaded_fleet_file' = StoredFleetFile(ff, uploaded_fleet_file)
    /\ IF u # NoFile
       THEN /\ Store(Ingest(session, process_file(u, uploaded_fleet_file', default_fleet)))
            /\ clean_table' = CleanTableOf(u)
       ELSE /\ session' = session
            /\ messages' = <<>>
            /\ returned' = NoTable
            /\ clean_table' = NoTable
    /\ screen' = MainArea(session')
    /\ UNCHANGED <<pc, default_fleet, arg, out>>

Main ==
    \E u \in AppPrimaryFiles \cup {NoFile}, ff \in AppFleetFiles \cup {NoFile} : Run(u, ff)

NextApp == Main

SpecApp == InitApp /\ [][NextApp]_vars

----------------------------------------------------------------------------
(* Properties of clean_vessel_name (under SpecNorm) *)

\* the ASCII letters and digits of s, in order
AlnumOnly(s) == SelectSeq(s, IsAsciiAlnum)
NoSpaces(s) == SelectSeq(s, LAMBDA c : c # " ")

\* the pairs of neighbouring letters/digits of s (nothing but removed
\* characters and whitespace between them) that whitespace separates
SeparatedPairs(s) ==
    { pq \in (1..Len(s)) \X (1..Len(s)) :
        /\ pq[1] < pq[2]
        /\ IsAsciiAlnum(s[pq[1]]) /\ IsAsciiAlnum(s[pq[2]])
        /\ \A k \in (pq[1] + 1)..(pq[2] - 1) : ~IsAsciiAlnum(s[k])
        /\ \E k \in (pq[1] + 1)..(pq[2] - 1) : IsSpace(s[k]) }

\* C4: clean_vessel_name maps a null value to the empty string; otherwise the
\* key is exactly the ASCII letters and digits of the input, lowercased and in
\* order, with one space wherever whitespace separated two of them: only
\* lowercase letters, digits and single spaces, none leading, trailing or
\* doubled.
C4_KeyShape ==
    pc = "normed" =>
        /\ isna(arg) => out = <<>>
        /\ \A i \in 1..Len(out) : IsLower(out[i]) \/ IsDigit(out[i]) \/ out[i] = " "
        /\ out # <<>> => out[1] # " " /\ out[Len(out)] # " "
        /\ \A i \in 1..(Len(out) - 1) : ~(out[i] = " " /\ out[i + 1] = " ")
        /\ notna(arg) =>
              /\ NoSpaces(out) = lower(AlnumOnly(str(arg)))
              /\ Len(out) - Len(NoSpaces(out)) = Cardinality(SeparatedPairs(str(arg)))

\* a name with a special character, a whitespace run and capitals was normalized
C4_Witness ==
    /\ pc = "normed"
    /\ arg = StrCell(n_messy)
    /\ out = <<"m", "v", " ", "s", "t", "a", "r", "7">>

\* C5: normalization is idempotent: normalizing the key of any name gives
\* that key again.
C5_Idempotent ==
    pc = "normed" => clean_vessel_name(StrCell(out)) = out

\* a name that normalization changed, to a non-empty key
C5_Witness ==
    /\ pc = "normed"
    /\ notna(arg)
    /\ out # str(arg)
    /\ out # <<>>
    /\ " " \in Range(out)

----------------------------------------------------------------------------
(* Properties of _split_fleet_column (under SpecSplit) *)

\* the first position of s holding a character of C
FirstIn(s, C) == CHOOSE i \in 1..Len(s) : s[i] \in C /\ \A j \in 1..(i - 1) : s[j] \notin C
BeforeFirst(s, C) == SubSeq(s, 1, FirstIn(s, C) - 1)
AfterFirst(s, C) == SubSeq(s, FirstIn(s, C) + 1, Len(s))

SplitMU == Column(out, ManagementUnit)[1]
SplitFN == Column(out, FleetName)[1]

\* the split cuts at the first character of C, if any
SplitsAt(C) ==
    /\ HasColumn(out, ManagementUnit) /\ HasColumn(out, FleetName)
    /\ \A i \in 1..Len(messages) : messages[i].level # "warning"
    /\ isna(arg) => SplitMU = StrCell(<<>>) /\ SplitFN = StrCell(<<>>)
    /\ notna(arg) /\ Range(str(arg)) \cap C = {} =>
          SplitMU = StrCell(str(arg)) /\ SplitFN = StrCell(<<>>)
    /\ notna(arg) /\ Range(str(arg)) \cap C # {} =>
          /\ SplitMU = StrCell(BeforeFirst(str(arg), C))
          /\ SplitFN = StrCell(AfterFirst(str(arg), C))

\* C6 as stated: the value is cut at its first whitespace character.
C6_SplitAtWhitespace == pc = "splitted" => SplitsAt({" ", "\t"})

\* C6 (amended): both parts are empty for a null value; a value without a
\* space character is the Management Unit whole, Fleet Name empty; otherwise
\* the value is cut at its first space character (U+0020), other whitespace
\* such as a tab does not split; the split does not raise.
C6_SplitAtSpace == pc = "splitted" => SplitsAt({" "})

C6_Witness ==
    /\ pc = "splitted"
    /\ arg = StrCell(v_ALPHA_BETA_GAMMA)
    /\ SplitMU = StrCell(v_ALPHA)
    /\ SplitFN = StrCell(v_BETA_GAMMA)

----------------------------------------------------------------------------
(* Properties of the merge (under Spec) *)

\* process_file loaded the primary file and called _merge_with_fleet_data
MergeCalled == pc = "done" /\ IsTable(clean_table)

HasLevel(level) == \E i \in 1..Len(messages) : messages[i].level = level

\* the merge ran to its end (line 184)
MergeCompleted == MergeCalled /\ HasLevel("success")

\* the except branch of the merge ran (line 189)
MergeFailed ==
    /\ MergeCalled
    /\ \E i \in 1..Len(messages) :
          messages[i] = Warning("Could not merge fleet data. Proceeding with E-form data only.")

\* the fleet reference of this call, when it loads and has rows
FleetLoad == LoadFleetData(uploaded_fleet_file, default_fleet)
FleetLoaded == ~FleetLoad.raised /\ ~empty(FleetLoad.df)
FleetRef == FleetLoad.df

PrimaryKey(i) == clean_vessel_name(Column(clean_table, Vessel)[i])
FleetKey(j) == clean_vessel_name(Column(FleetRef, fleet_vessel_col(FleetRef))[j])

\* the cells of a returned row under the primary table's columns, which are
\* the first columns of the returned table
PrimaryPart(row) == SubSeq(row, 1, Len(clean_table.columns))

EmptyOrNull(x) == isna(x) \/ (x.k = "str" /\ x.s = <<>>)

C2_NoMatch ==
    ( /\ MergeCalled
      /\ ~FleetLoad.raised
      /\ HasColumn(clean_table, Vessel)
      /\ \A i \in 1..Len(clean_table.rows), j \in 1..Len(FleetRef.rows) :
            PrimaryKey(i) # FleetKey(j) )
    => /\ Len(returned.rows) = Len(clean_table.rows)
       /\ \A c \in {ManagementUnit, FleetName} :
             HasColumn(returned, c) =>
                \A r \in 1..Len(returned.rows) : EmptyOrNull(Column(returned, c)[r])

\* a completed merge without any match, whose split wrote the two columns
C2_Witness ==
    /\ MergeCompleted
    /\ FleetLoaded
    /\ Len(clean_table.rows) = 2
    /\ \A i \in 1..Len(clean_table.rows), j \in 1..Len(FleetRef.rows) :
          PrimaryKey(i) # FleetKey(j)
    /\ \E j \in 1..Len(FleetRef.rows) : notna(Column(FleetRef, fleet_col(FleetRef))[j])
    /\ HasColumn(returned, ManagementUnit) /\ HasColumn(returned, FleetName)

\* the primary row i is in the returned table with the Management Unit and
\* Fleet Name of the fleet row j
Enriched(i, j) ==
    /\ HasColumn(returned, ManagementUnit) /\ HasColumn(returned, FleetName)
    /\ \E r \in 1..Len(returned.rows) :
          /\ PrimaryPart(returned.rows[r]) = clean_table.rows[i]
          /\ Column(returned, ManagementUnit)[r]
                = StrCell(ManagementUnitOf(Column(FleetRef, fleet_col(FleetRef))[j]))
          /\ Column(returned, FleetName)[r]
                = StrCell(FleetNameOf(Column(FleetRef, fleet_col(FleetRef))[j]))

\* a primary table with a Vessel column and a fleet reference with a vessel
\* and an organizational column
Joinable ==
    /\ MergeCalled
    /\ FleetLoaded
    /\ HasColumn(clean_table, Vessel)
    /\ HasColumn(FleetRef, fleet_col(FleetRef))

\* C3: every primary row whose normalized vessel key equals that of a fleet
\* row is joined to it and receives the Management Unit and Fleet Name split
\* from that fleet row's organizational value.
C3_MatchedRowsEnriched ==
    Joinable =>
        \A i \in 1..Len(clean_table.rows), j \in 1..Len(FleetRef.rows) :
            PrimaryKey(i) = FleetKey(j) => Enriched(i, j)

\* C7: whenever loading or joining the fleet reference fails, the merge
\* returns the primary table exactly as it was given, with a warning.
C7_FailureReturnsPrimaryUnmodified ==
    MergeFailed => returned = clean_table /\ HasLevel("warning")

\* C8: when the uploaded fleet file's loader raises, process_file on a valid
\* primary file returns exactly the cleaned primary table and a merge
\* warning is emitted, no success message.
C8_UnreadableFleetFile ==
    ( /\ MergeCalled
      /\ uploaded_fleet_file # NoFile
      /\ uploaded_fleet_file.content = Unreadable )
    => /\ returned = clean_table
       /\ HasLevel("warning")
       /\ ~HasLevel("success")

C8_Witness ==
    /\ MergeCalled
    /\ uploaded_fleet_file # NoFile
    /\ uploaded_fleet_file.content = Unreadable
    /\ Len(clean_table.rows) = 2
    /\ returned = clean_table
    /\ MergeFailed

\* C9: the table process_file returns has no vessel_cleaned column unless the
\* primary table had one.
C9_KeyNeverInOutput ==
    ( /\ pc = "done"
      /\ IsTable(returned)
      /\ ~HasColumn(clean_table, vessel_cleaned) )
    => ~HasColumn(returned, vessel_cleaned)

\* C10: whenever the table the merge returns lacks the Management Unit and
\* Fleet Name columns, a warning was emitted during the call and no success
\* message.
C10_SkippedEnrichmentWarned ==
    ( /\ MergeCalled
      /\ ~HasColumn(returned, ManagementUnit)
      /\ ~HasColumn(returned, FleetName) )
    => HasLevel("warning") /\ ~HasLevel("success")

\* C11: whenever the merge completes, the returned table's columns are the
\* primary table's columns under their original names, followed by what the
\* merge appends, which ends with Management Unit and Fleet Name; this for
\* every primary table, one with a column named like the fleet's
\* organizational column, Type or IMO included.
C11_PrimaryColumnsKept ==
    MergeCompleted =>
        /\ Len(returned.columns) >= Len(clean_table.columns) + 2
        /\ SubSeq(returned.columns, 1, Len(clean_table.columns)) = clean_table.columns
        /\ returned.columns[Len(returned.columns) - 1] = ManagementUnit
        /\ returned.columns[Len(returned.columns)] = FleetName

\* C12: when no fleet file was supplied and the default fleet reference does
\* not load or has no rows, process_file on a valid primary file returns the
\* cleaned primary table unchanged.
C12_NoFleetReference ==
    ( /\ MergeCalled
      /\ uploaded_fleet_file = NoFile
      /\ (default_fleet = Unreadable \/ empty(default_fleet)) )
    => returned = clean_table

\* both cases of a missing default reference, on a primary table of two rows
C12_Witness ==
    /\ MergeCalled
    /\ uploaded_fleet_file = NoFile
    /\ default_fleet = Unreadable
    /\ Len(clean_table.rows) = 2
    /\ returned = clean_table
    /\ HasLevel("warning")

----------------------------------------------------------------------------
(* Properties of _clean_dataframe (under SpecClean) *)

CleanReturned == pc = "cleaned" /\ ~out.raised

AllNullRow(t, i) == \A j \in 1..Len(t.columns) : isna(t.rows[i][j])
AllNullColumn(t, j) == \A i \in 1..Len(t.rows) : isna(t.rows[i][j])

\* C16: every table _clean_dataframe returns has at least one row, no row
\* whose cells are all null and no column whose cells are all null, for
\* every input table.
C16_NoEmptyRowOrColumn ==
    CleanReturned =>
        /\ Len(out.df.rows) >= 1
        /\ \A i \in 1..Len(out.df.rows) : ~AllNullRow(out.df, i)
        /\ \A j \in 1..Len(out.df.columns) : ~AllNullColumn(out.df, j)

\* a raw table with an all-null row and an all-null 'Unnamed:' column, of
\* which one row and two columns are returned
C16_Witness ==
    /\ CleanReturned
    /\ arg.columns = << Vessel, Unnamed_1, Job >>
    /\ Len(arg.rows) = 2
    /\ AllNullRow(arg, 1)
    /\ AllNullColumn(arg, 2)
    /\ out.df.columns = << Vessel, Job >>
    /\ Len(out.df.rows) = 1

PairwiseDistinct(s) == \A i, j \in 1..Len(s) : i # j => s[i] # s[j]

\* C17: in every table _clean_dataframe returns the column names have no
\* leading or trailing whitespace and are pairwise distinct, for every input
\* table whose raw headers are pairwise distinct.
C17_StrippedDistinctHeaders ==
    (CleanReturned /\ PairwiseDistinct(arg.columns)) =>
        /\ \A j \in 1..Len(out.df.columns) :
              out.df.columns[j] = strip(out.df.columns[j])
        /\ PairwiseDistinct(out.df.columns)

----------------------------------------------------------------------------
(* Properties of _process_csv (under SpecCsv) *)

CsvDone == pc = "loaded"

\* the attempts of the loader, in order
Attempts == << DetectedEncoding(uploaded_file.content), latin_1, cp1252, iso_8859_1 >>
Read(enc) == read_csv(uploaded_file.content, enc)
DecodeFails(enc) == Read(enc).raised /\ Read(enc).error.type = "UnicodeDecodeError"

\* the table the loader reads: that of the detected encoding, or that of
\* latin-1 when the detected encoding does not decode the bytes
TableRead == IF DecodeFails(Attempts[1]) THEN Read(latin_1) ELSE Read(Attempts[1])

Last(s) == s[Len(s)]

EmptyInputError(e) ==
    /\ e.type = "ValueError"
    /\ Last(e.text) \in { "The uploaded file is empty",
                          "No valid data found after cleaning" }
EncodingError(e) ==
    /\ e.type = "ValueError"
    /\ Last(e.text) = "Unable to decode CSV file with any supported encoding"

\* C13: whenever the table read from the file has no row before cleaning or
\* no row after cleaning, loading fails with the empty-input error; a
\* header-only CSV file is such a table.
C13_EmptyInputError ==
    ( /\ CsvDone
      /\ ~TableRead.raised
      /\ \A i \in 1..Len(TableRead.df.rows) : AllNullRow(TableRead.df, i) )
    => out.raised /\ EmptyInputError(out.error)

\* an attempt, reading then cleaning
Attempt(enc) == IF Read(enc).raised THEN Read(enc) ELSE _clean_dataframe(Read(enc).df)

\* C14: the loader returns the table of the detected encoding (utf-8 when
\* none is detected) unless that attempt fails to decode; then the table of
\* the first of latin-1, cp1252, iso-8859-1 that succeeds; it fails with the
\* encoding error only if every attempt fails to decode; a file that is not
\* valid UTF-8 but loads as Latin-1 is loaded with the rows of its Latin-1
\* reading.
C14_EncodingFallback ==
    CsvDone =>
        /\ ~DecodeFails(Attempts[1]) =>
              (out.raised = Attempt(Attempts[1]).raised
                 /\ (~out.raised => out = Attempt(Attempts[1])))
        /\ DecodeFails(Attempts[1]) =>
              \A k \in 2..4 :
                 ( ~Attempt(Attempts[k]).raised
                     /\ \A m \in 2..(k - 1) : Attempt(Attempts[m]).raised )
                 => out = Attempt(Attempts[k])
        /\ (out.raised /\ EncodingError(out.error)) =>
              \A k \in 1..4 : DecodeFails(Attempts[k])
        /\ ( /\ Attempts[1] = utf_8
             /\ DecodeFails(utf_8)
             /\ ~Attempt(latin_1).raised )
           => /\ ~out.raised
              /\ Len(out.df.rows) = Len(Attempt(latin_1).df.rows)

----------------------------------------------------------------------------
(* Properties of process_file on a primary file that does not load (under Spec) *)

Extension == lower(AfterLastDot(uploaded_file.name))
UnsupportedExtension == Extension \notin { ext_csv, ext_xlsx, ext_xls }

\* the loader of the extension raises: an encoding, empty-input or read failure
PrimaryLoadFails ==
    \/ Extension = ext_csv /\ _process_csv(uploaded_file).raised
    \/ Extension \in { ext_xlsx, ext_xls } /\ _process_excel(uploaded_file).raised

\* C15: for a primary file whose extension is not csv, xlsx or xls, and for
\* every encoding, empty-input or read failure of the primary file,
\* process_file returns None, no table, and emits an error message.
C15_FailedIngestionReturnsNone ==
    (pc = "done" /\ (UnsupportedExtension \/ PrimaryLoadFails))
    => /\ returned = NoTable
       /\ HasLevel("error")

\* a readable table under the name notes.txt is refused
C15_Witness ==
    /\ pc = "done"
    /\ uploaded_file.name = f_notes_txt
    /\ IsTable(uploaded_file.content)
    /\ returned = NoTable
    /\ \E i \in 1..Len(messages) :
          messages[i] = ProcessingError(ValueError(<< "Unsupported file format" >>))

----------------------------------------------------------------------------
(* Properties of the column inference (under SpecInfer) *)

\* the header contains one of the keywords, whatever the case of its letters
HasKeyword(header, kws) == \E kw \in kws : Contains(kw, lower(header))

\* the i-th is the first header with one of the keywords
FirstWithKeyword(cols, kws, i) ==
    /\ HasKeyword(cols[i], kws)
    /\ \A j \in 1..(i - 1) : ~HasKeyword(cols[j], kws)

\* name is the first header with one of the keywords, or the fallback when
\* no header has one
FirstOrElse(cols, kws, fallback, name) ==
    IF \E i \in 1..Len(cols) : HasKeyword(cols[i], kws)
    THEN \E i \in 1..Len(cols) : FirstWithKeyword(cols, kws, i) /\ name = cols[i]
    ELSE name = fallback

\* C18: the fleet's vessel column is the first column whose header contains
\* 'vessel', 'ship' or 'boat' case-insensitively, else the first column; its
\* organizational column is the first column whose header contains 'fleet'
\* case-insensitively, else the name 'Fleet'.
C18_FleetColumnInference ==
    pc = "inferred" =>
        /\ FirstOrElse(arg.columns, {kw_vessel, kw_ship, kw_boat}, arg.columns[1],
                       out.vessel_col)
        /\ FirstOrElse(arg.columns, {kw_fleet}, Fleet, out.fleet_col)

\* headers in capitals, the vessel keyword not in the first column
C18_Witness ==
    /\ pc = "inferred"
    /\ arg.columns = << Owner, BOAT_No, FLEET_UPPER >>
    /\ out.vessel_col = BOAT_No
    /\ out.fleet_col = FLEET_UPPER

----------------------------------------------------------------------------
(* Properties of the page (under SpecApp) *)

\* the run that led to this state ingested a file: process_file returned a
\* table with rows
Ingested == uploaded_file # NoFile /\ returned # NoTable /\ ~empty(returned)

\* C19: after every successful ingestion the stored configuration has
\* vessel_col = the first column of the ingested table whose name contains
\* 'vessel', 'ship' or 'boat' in any case, else the first column; job_col =
\* the first column whose name contains 'job', 'work', 'task', 'project' or
\* 'code', else the second column, the first when there is only one;
\* eform_col = 'E-Form'; vessel_col and job_col are columns of the table.
C19_StoredConfiguration ==
    Ingested =>
        /\ session.data = returned
        /\ FirstOrElse(returned.columns, {kw_vessel, kw_ship, kw_boat},
                       returned.columns[1], session.config.vessel_col)
        /\ FirstOrElse(returned.columns,
                       {kw_job, kw_work, kw_task, kw_project, kw_code},
                       returned.columns[IF Len(returned.columns) > 1 THEN 2 ELSE 1],
                       session.config.job_col)
        /\ session.config.eform_col = E_Form
        /\ HasColumn(session.data, session.config.vessel_col)
        /\ HasColumn(session.data, session.config.job_col)

\* an ingestion whose job column is found by the last keyword, past the
\* second column
C19_Witness ==
    /\ Ingested
    /\ Len(returned.columns) >= 3
    /\ SubSeq(returned.columns, 1, 3) = << Vessel, E_Form, Code >>
    /\ session.config = [vessel_col |-> Vessel, job_col |-> Code, eform_col |-> E_Form]

\* C20: constructing the DataProcessor fails with the missing-required-columns
\* error exactly when one of the config's vessel_col, job_col, eform_col is
\* not a column of the session's table, which is exactly when the table has
\* no column 'E-Form'; then the run ends in that error and no dashboard is
\* shown.
C20_MissingRequiredColumns ==
    (pc = "app" /\ session.analysis_complete /\ session.data # NoTable) =>
        LET failed == screen.view = "exception"
                        /\ screen.error.text = << "Missing required columns" >>
        IN  /\ failed <=> \E col \in Range(required_cols(session.config)) :
                              ~HasColumn(session.data, col)
            /\ failed <=> ~HasColumn(session.data, E_Form)
            /\ failed => screen.error.missing = << E_Form >>
            /\ ~failed => screen = Dashboard

\* a table without E-Form was ingested and the run ended in the error
C20_Witness ==
    /\ Ingested
    /\ returned.columns[1] = Vessel /\ returned.columns[2] = Job
    /\ ~HasColumn(session.data, E_Form)
    /\ screen.view = "exception"
    /\ screen.error.missing = << E_Form >>

----------------------------------------------------------------------------
(* Properties of the merge's diagnostic and of the join (under Spec) *)

\* the organizational-unit cell of a returned row: the first column the
\* merge appends to the primary table's columns
OrgUnitOf(row) == row[Len(clean_table.columns) + 1]

\* C21: the success diagnostic of a completed merge reports as matched the
\* number of returned rows whose organizational-unit value is not null, and
\* as total the number of returned rows.
C21_MatchDiagnostic ==
    MergeCompleted =>
        \E i \in 1..Len(messages) :
            /\ messages[i].level = "success"
            /\ messages[i].total = Len(returned.rows)
            /\ messages[i].matched =
                  Cardinality({r \in 1..Len(returned.rows) :
                                  notna(OrgUnitOf(returned.rows[r]))})

RECURSIVE SumTo(_, _)
SumTo(f, n) == IF n = 0 THEN 0 ELSE f[n] + SumTo(f, n - 1)

\* the number of fleet rows with the normalized key of the primary row i
MatchCount(i) ==
    Cardinality({j \in 1..Len(FleetRef.rows) : FleetKey(j) = PrimaryKey(i)})

\* C22: when the merge completes, the returned table has, for each primary
\* row, one row per fleet row with its normalized key, and one row when there
\* is none; it has more rows than the primary table exactly when the key of
\* some primary row occurs more than once in the fleet reference.
C22_JoinCardinality ==
    MergeCompleted =>
        /\ Len(returned.rows) =
              SumTo([i \in 1..Len(clean_table.rows) |->
                        IF MatchCount(i) = 0 THEN 1 ELSE MatchCount(i)],
                    Len(clean_table.rows))
        /\ Len(returned.rows) > Len(clean_table.rows)
              <=> \E i \in 1..Len(clean_table.rows) : MatchCount(i) > 1

\* two primary rows with the same key, which two fleet rows have: four rows
C22_Witness ==
    /\ MergeCompleted
    /\ Len(clean_table.rows) = 2
    /\ MatchCount(1) = 2 /\ MatchCount(2) = 2
    /\ Len(returned.rows) = 4

-----------------------------------------------------------------------------
(* Row order and numbering after cleaning (under SpecClean) *)

\* the positions of the input rows with a cell that is not null, in order
NonEmptyRows ==
    SelectSeq(Indices(arg.rows),
              LAMBDA i : \E j \in 1..Len(arg.rows[i]) : notna(arg.rows[i][j]))

\* the cells of the input row i at the column positions K, in column order
CellsAt(i, K) ==
    LET keep == SelectSeq(Indices(arg.columns), LAMBDA j : j \in K)
    IN  [j \in 1..Len(keep) |-> arg.rows[i][keep[j]]]

\* C23: the rows of the table _clean_dataframe returns are the input rows
\* with a cell that is not null, in their original order (each with the
\* cells of the columns that are kept), and they are numbered 0, 1, ..., n-1.
C23_RowOrderAndNumbering ==
    CleanReturned =>
        /\ Len(out.df.rows) = Len(NonEmptyRows)
        /\ \E K \in SUBSET (1..Len(arg.columns)) :
              \A i \in 1..Len(out.df.rows) :
                  out.df.rows[i] = CellsAt(NonEmptyRows[i], K)
        /\ out.index = [i \in 1..Len(out.df.rows) |-> i - 1]

\* an input whose first row is all null: the second row is returned as row 0
C23_Witness ==
    /\ CleanReturned
    /\ Len(arg.rows) = 2
    /\ NonEmptyRows = << 2 >>
    /\ dropna_labels(arg) = << 1 >>
    /\ out.index = << 0 >>
    /\ Len(out.df.columns) < Len(arg.columns)

-----------------------------------------------------------------------------
(* Properties of the session over reruns and uploads (under SpecApp) *)

\* C24: analysis_complete is set only when the session holds a table with
\* rows and a role configuration; the dashboard is rendered only then; the
\* configuration's vessel_col and job_col are columns of the stored table;
\* the session holds a configuration exactly when it holds a table.
C24_SessionInvariant ==
    /\ session.analysis_complete =>
          /\ session.data # NoTable
          /\ ~empty(session.data)
          /\ session.config # NoConfig
          /\ HasColumn(session.data, session.config.vessel_col)
          /\ HasColumn(session.data, session.config.job_col)
    /\ screen.view = "dashboard" => session.analysis_complete
    /\ session.config # NoConfig <=> session.data # NoTable

\* a rerun with both uploaders empty, after an upload: the dashboard of the
\* stored table
C24_Witness ==
    /\ uploaded_file = NoFile
    /\ session.analysis_complete
    /\ session.config.vessel_col = SHIP_UPPER
    /\ session.config.job_col = Work_Order
    /\ screen.view = "dashboard"

\* the run that led to this state was given a file and process_file returned
\* None or a table without rows
FailedIngestion ==
    /\ uploaded_file # NoFile
    /\ (returned = NoTable \/ empty(returned))

\* C25: a failed ingestion leaves the session's data, configuration and
\* analysis_complete as they were; analysis_complete never goes from true to
\* false; after a failed ingestion that follows a successful one the main
\* area is that of the earlier file's data.
C25_FailedIngestionKeepsSession ==
    [][ /\ FailedIngestion' => session' = session
        /\ session.analysis_complete => session'.analysis_complete
        /\ (FailedIngestion' /\ session.analysis_complete) =>
              /\ session'.data = session.data
              /\ screen' = MainArea(session) ]_vars

\* a failed upload in a session that holds an earlier file's table: the
\* dashboard still shows
C25_Witness ==
    /\ FailedIngestion
    /\ session.analysis_complete
    /\ session.data # NoTable
    /\ screen.view = "dashboard"

HasMessage(m) == \E i \in 1..Len(messages) : messages[i] = m

-----------------------------------------------------------------------------
(* Properties of the merge's column choices (under Spec) *)

\* the fleet reference loads, has rows, and none of its headers contains
\* 'fleet' in any case
NoFleetHeader ==
    /\ FleetLoaded
    /\ \A j \in 1..Len(FleetRef.columns) : ~Contains(kw_fleet, lower(FleetRef.columns[j]))

GainsEnrichment ==
    \/ HasColumn(returned, ManagementUnit) /\ ~HasColumn(clean_table, ManagementUnit)
    \/ HasColumn(returned, FleetName) /\ ~HasColumn(clean_table, FleetName)

\* C27: when no header of the fleet reference contains 'fleet', the
\* organizational column is the fallback 'Fleet', which the fleet reference
\* does not have; the merge fails and degrades, and the returned table gains
\* neither Management Unit nor Fleet Name. The returned table gains them only
\* when some header of the fleet reference contains 'fleet'.
C27_FallbackNeverUsable ==
    /\ (MergeCalled /\ NoFleetHeader) =>
          /\ fleet_col(FleetRef) = Fleet
          /\ ~HasColumn(FleetRef, Fleet)
          /\ MergeFailed
          /\ ~HasLevel("success")
          /\ ~GainsEnrichment
    /\ (MergeCalled /\ GainsEnrichment) =>
          /\ FleetLoaded
          /\ \E j \in 1..Len(FleetRef.columns) :
                Contains(kw_fleet, lower(FleetRef.columns[j]))

\* a primary table with a Vessel column against a fleet reference with the
\* headers 'Name' and 'Owner': the merge fails at the column selection
C27_Witness ==
    /\ MergeCalled
    /\ NoFleetHeader
    /\ FleetRef.columns = << Name, Owner >>
    /\ HasColumn(clean_table, Vessel)
    /\ MergeFailed
    /\ ~HasColumn(returned, ManagementUnit)

\* C28: the primary key is read from the column named exactly 'Vessel',
\* whatever vessel column the configuration would infer: when the primary
\* table has no column of that name the merge returns the cleaned primary
\* table as it was, with a warning and no success message.
C28_LiteralVesselColumn ==
    (MergeCalled /\ ~HasColumn(clean_table, Vessel)) =>
        /\ returned = clean_table
        /\ HasLevel("warning")
        /\ ~HasLevel("success")
        /\ FleetLoaded => MergeFailed

\* a primary table whose vessel column is 'Vessel Name', which the
\* configuration infers, against a fleet reference that would join
C28_Witness ==
    /\ MergeCalled
    /\ clean_table.columns = << VesselName, Job >>
    /\ DetectConfig(clean_table.columns).vessel_col = VesselName
    /\ FleetLoaded
    /\ HasColumn(FleetRef, fleet_col(FleetRef))
    /\ MergeFailed
    /\ returned = clean_table

-----------------------------------------------------------------------------
(* Empty-key matching (under Spec) *)

\* a vessel name that is missing or holds no ASCII letter or digit
NoAlnum(x) ==
    \/ isna(x)
    \/ x.k = "str" /\ \A k \in 1..Len(x.s) : ~IsAsciiAlnum(x.s[k])

PrimaryName(i) == Column(clean_table, Vessel)[i]
FleetVesselName(j) == Column(FleetRef, fleet_vessel_col(FleetRef))[j]

\* the primary row i is in the returned table with a Management Unit
ReceivesEnrichment(i) ==
    /\ HasColumn(returned, ManagementUnit) /\ HasColumn(returned, FleetName)
    /\ \E r \in 1..Len(returned.rows) :
          /\ PrimaryPart(returned.rows[r]) = clean_table.rows[i]
          /\ Column(returned, ManagementUnit)[r] # StrCell(<<>>)

\* C29: every primary row whose vessel name is missing or has no ASCII letter
\* or digit has the key "" and is joined to every fleet row whose vessel name
\* is missing or has none, with that row's Management Unit and Fleet Name; it
\* receives enrichment exactly when the fleet reference has such a row.
C29_EmptyKeyMatching ==
    Joinable =>
        \A i \in 1..Len(clean_table.rows) :
            NoAlnum(PrimaryName(i)) =>
                /\ PrimaryKey(i) = <<>>
                /\ \A j \in 1..Len(FleetRef.rows) :
                      NoAlnum(FleetVesselName(j)) =>
                          FleetKey(j) = <<>> /\ Enriched(i, j)
                /\ ReceivesEnrichment(i)
                      <=> \E j \in 1..Len(FleetRef.rows) : NoAlnum(FleetVesselName(j))

-----------------------------------------------------------------------------
(* Error classification of _process_csv (under SpecCsv) *)

ReadError(e) ==
    /\ e.type = "ValueError"
    /\ Head(e.text) = "Error reading CSV file"

\* C30: a first attempt that fails otherwise than by a decode error is
\* reported at once as a read error that carries its message; after a decode
\* error the result is that of the first fallback encoding whose attempt does
\* not fail, whatever the failures before it, and the encoding error when
\* every attempt fails; so a file that a fallback encoding decodes but that
\* has no usable row is reported with the encoding error, not as empty input.
C30_ErrorClassification ==
    CsvDone =>
        /\ ~Attempt(Attempts[1]).raised => out = Attempt(Attempts[1])
        /\ (Attempt(Attempts[1]).raised /\ ~DecodeFails(Attempts[1])) =>
              /\ out.raised
              /\ ReadError(out.error)
              /\ Tail(out.error.text) = Attempt(Attempts[1]).error.text
        /\ DecodeFails(Attempts[1]) =>
              /\ \A k \in 2..4 :
                    ( ~Attempt(Attempts[k]).raised
                        /\ \A m \in 2..(k - 1) : Attempt(Attempts[m]).raised )
                    => out = Attempt(Attempts[k])
              /\ (\A k \in 2..4 : Attempt(Attempts[k]).raised) =>
                    out.raised /\ EncodingError(out.error)
        /\ ( /\ DecodeFails(Attempts[1])
             /\ ~Read(latin_1).raised
             /\ Attempt(latin_1).raised
             /\ EmptyInputError(Attempt(latin_1).error) ) =>
              /\ out.raised
              /\ EncodingError(out.error)
              /\ ~EmptyInputError(out.error)

\* bytes that are not UTF-8, read as latin-1 into a table with a row and no
\* value: the encoding error
C30_Witness ==
    /\ CsvDone
    /\ Attempts[1] = utf_8
    /\ DecodeFails(utf_8)
    /\ ~Read(latin_1).raised
    /\ Len(Read(latin_1).df.rows) = 1
    /\ Attempt(latin_1).raised
    /\ EmptyInputError(Attempt(latin_1).error)
    /\ out.raised
    /\ EncodingError(out.error)


====
